---- MODULE Spec2Model ----
(***************************************************************************)
(* Model of the OS library of LuaJIT (src/src/lib_os.c): os.date and       *)
(* os.time, the adaptive strftime loop over the engine's temporary buffer  *)
(* and the table <-> struct tm codec.                                      *)
(*                                                                         *)
(* Lua values are records [k |-> kind, v |-> integer payload]:             *)
(*   "nil"    nil                       "num"   a number, v its value      *)
(*   "str"    an argument string, v its index in Patterns                  *)
(*   "numstr" a string convertible to a number (v)                         *)
(*   "bool"   a boolean (v = 0/1)       "text"  a string made by           *)
(*   lj_str_new / strempty, v its length   "table" the table in tbl        *)
(*   "func"/"frame" the slot below the frame base   "none" nothing         *)
(***************************************************************************)
EXTENDS Integers, Sequences, FiniteSets, TLC

VARIABLES
  tmpbuf,       \* G(L)->tmpbuf: [blk |-> allocated bytes at b, size |-> e - b]
  tz,           \* seconds east of UTC of the process's local zone
  pc,           \* "idle", "loop" (inside while (retry--)), "done"
  op,           \* "none", "date", "time"
  stack,        \* the arguments, L->base .. L->top-1 at entry
  s,            \* os_date: the pattern after the '!' is skipped
  stm,          \* os_date: result of localtime_r / gmtime_r
  outLen,       \* bytes strftime produces for (s, stm) in the current locale
  sz, retry,    \* os_date locals (dead between calls, kept as left)
  renders,      \* the strftime invocations of the current call
  entry,        \* sbufsz(tmpbuf) when the current call started
  result,       \* the value returned (slot L->top-1 at return 1)
  tbl,          \* the fields of the table os_date created
  err,          \* key named by lj_err_callerv(LJ_ERR_OSDATEF), or ""
  rec,          \* os_time: the fields of the argument table
  ts,           \* os_time: struct tm as handed to mktime
  mktimeCalls,  \* os_time: number of mktime calls of the current call
  last,         \* the previous completed os_date call
  lastTime      \* the previous completed os_time call

vars == <<tmpbuf, tz, pc, op, stack, s, stm, outLen, sz, retry, renders,
          entry, result, tbl, err, rec, ts, mktimeCalls, last, lastTime>>

----------------------------------------------------------------------------
(* Bounds of the model *)

\* window of day numbers (days since 1970-01-01) the OS primitives handle
DayMax == 24000
DayMin == 0 - DayMax
\* a render longer than any capacity four attempts on a small pattern reach
BigOut == 300

----------------------------------------------------------------------------
(* Lua values *)

V(kind, val) == [k |-> kind, v |-> val]
NilV == V("nil", 0)
NoneV == V("none", 0)
TableV == V("table", 0)
Num(n) == V("num", n)
Str(i) == V("str", i)
Text(len) == V("text", len)

Rep(c, n) == [i \in 1..n |-> c]

LJ_MIN_SBUF == 32

Patterns ==
  << <<>>,
     <<"!">>,
     <<"*", "t">>,
     <<"!", "*", "t">>,
     <<"x">>,
     <<"%", "p">>,
     <<"!", "%", "c">>,
     Rep("a", LJ_MIN_SBUF),
     <<"!">> \o Rep("a", LJ_MIN_SBUF - 1) >>

DefaultFormat == <<"%", "c">>
StarT == <<"*", "t">>

----------------------------------------------------------------------------
(* The OS calendar primitives, in a zone without DST *)

days_from_civil(y0, m, d) ==
  LET y   == IF m <= 2 THEN y0 - 1 ELSE y0
      era == y \div 400
      yoe == y - era * 400
      mp  == IF m > 2 THEN m - 3 ELSE m + 9
      doy == (153 * mp + 2) \div 5 + d - 1
      doe == yoe * 365 + yoe \div 4 - yoe \div 100 + doy
  IN era * 146097 + doe - 719468

civil_from_days(z0) ==
  LET z   == z0 + 719468
      era == z \div 146097
      doe == z - era * 146097
      yoe == (doe - doe \div 1460 + doe \div 36524 - doe \div 146096) \div 365
      doy == doe - (365 * yoe + yoe \div 4 - yoe \div 100)
      mp  == (5 * doy + 2) \div 153
      d   == doy - (153 * mp + 2) \div 5 + 1
      m   == IF mp < 10 THEN mp + 3 ELSE mp - 9
      y   == yoe + era * 400 + (IF m <= 2 THEN 1 ELSE 0)
  IN [y |-> y, m |-> m, d |-> d]

NullTm == [null |-> TRUE, tm_sec |-> 0, tm_min |-> 0, tm_hour |-> 0,
           tm_mday |-> 0, tm_mon |-> 0, tm_year |-> 0, tm_wday |-> 0,
           tm_yday |-> 0, tm_isdst |-> 0]

\* broken-down time of the instant t shifted by off seconds; NULL outside
\* the window
Decompose(t, off) ==
  LET lt   == t + off
      days == lt \div 86400
      sod  == lt % 86400
      c    == civil_from_days(days)
  IN IF days < DayMin \/ days > DayMax
     THEN NullTm
     ELSE [null |-> FALSE,
           tm_sec |-> sod % 60,
           tm_min |-> (sod \div 60) % 60,
           tm_hour |-> sod \div 3600,
           tm_mday |-> c.d,
           tm_mon |-> c.m - 1,
           tm_year |-> c.y - 1900,
           tm_wday |-> (days + 4) % 7,
           tm_yday |-> days - days_from_civil(c.y, 1, 1),
           tm_isdst |-> 0]

gmtime_r(t) == Decompose(t, 0)
localtime_r(t) == Decompose(t, tz)

\* day number and second of the day the fields of tm denote after carrying
TmDay(tm) ==
  LET y    == tm.tm_year + 1900 + (tm.tm_mon \div 12)
      m    == (tm.tm_mon % 12) + 1
      secs == tm.tm_hour * 3600 + tm.tm_min * 60 + tm.tm_sec
  IN days_from_civil(y, m, tm.tm_mday) + (secs \div 86400)

TmSecOfDay(tm) == (tm.tm_hour * 3600 + tm.tm_min * 60 + tm.tm_sec) % 86400

\* mktime fails when the normalised fields fall outside the window
Representable(tm) == TmDay(tm) >= DayMin /\ TmDay(tm) <= DayMax

TmInstant(tm) == TmDay(tm) * 86400 + TmSecOfDay(tm) - tz

mktime(tm) == IF Representable(tm) THEN TmInstant(tm) ELSE -1

----------------------------------------------------------------------------
(* The engine's string buffer (lj_buf.h, lj_buf.c) *)

RECURSIVE buf_double(_, _)
buf_double(nsz, need) == IF nsz < need THEN buf_double(nsz + nsz, need) ELSE nsz

buf_grow(sb, need) ==
  LET nsz == buf_double(IF sb.size < LJ_MIN_SBUF THEN LJ_MIN_SBUF ELSE sb.size,
                        need)
  IN [blk |-> nsz, size |-> nsz]

lj_buf_need(sb, need) == IF need > sb.size THEN buf_grow(sb, need) ELSE sb

sbufsz(sb) == sb.size

----------------------------------------------------------------------------
(* os_date *)

\* sz += (*q == '%') ? 30 : 1
Units_Flat(c) == 1
Units(c) == IF c = "%" THEN 30 ELSE 1

\* MSize sz = 0
SzInit_Stale == sz
SzInit == 0

RECURSIVE SumUnits(_, _)
SumUnits(p, acc) ==
  IF p = <<>> THEN acc ELSE SumUnits(Tail(p), acc + Units(Head(p)))

EstimateSize(p) == SumUnits(p, SzInit)

\* retry = 4
RetryInit == 4

\* sz += (sz|1); MSize is 32 bits wide, every value reached here is far
\* below 2^31, so no wrap occurs
NextSz_Stuck(n) == n
NextSz(n) == n + (IF n % 2 = 0 THEN n + 1 ELSE n)

\* the maxsize argument of strftime(buf, sbufsz(sb), s, stm)
StrftimeCap_Twice(sb, n) == n + n + 1
StrftimeCap(sb, n) == sbufsz(sb)

\* strftime: the number of bytes placed, or 0 when the bytes and the
\* terminating NUL do not fit maxsize (or nothing is produced)
strftime(maxsize, len) == IF len > 0 /\ len < maxsize THEN len ELSE 0

HasPercent(p) == \E i \in 1..Len(p) : p[i] = "%"

\* lengths the locale may give the expansion of p; ordinary characters are
\* copied
RenderLens(p) == IF HasPercent(p) THEN {0, 5, 40, 200, BigOut} ELSE {Len(p)}

\* if (*s == '!') s++
IsUtc(fmt) == fmt # <<>> /\ fmt[1] = "!"
Strip_Keep(fmt) == fmt
Strip(fmt) == IF IsUtc(fmt) THEN Tail(fmt) ELSE fmt

\* the if / else if chain of os_date
Branch_TableFirst(tm, p) ==
  IF p = StarT THEN "table"
  ELSE IF tm.null THEN "nil"
  ELSE IF p # <<>> THEN "format"
  ELSE "empty"
Branch(tm, p) ==
  IF tm.null THEN "nil"
  ELSE IF p = StarT THEN "table"
  ELSE IF p # <<>> THEN "format"
  ELSE "empty"

EmptyTable == [key \in {} |-> 0]

\* setfield x 8, setboolfield(isdst)
DateTable(tm) ==
  LET keys == {"sec", "min", "hour", "day", "month", "year", "wday", "yday"}
                \cup (IF tm.tm_isdst < 0 THEN {} ELSE {"isdst"})
  IN [key \in keys |->
        CASE key = "sec" -> tm.tm_sec
          [] key = "min" -> tm.tm_min
          [] key = "hour" -> tm.tm_hour
          [] key = "day" -> tm.tm_mday
          [] key = "month" -> tm.tm_mon + 1
          [] key = "year" -> tm.tm_year + 1900
          [] key = "wday" -> tm.tm_wday + 1
          [] key = "yday" -> tm.tm_yday + 1
          [] OTHER -> IF tm.tm_isdst = 0 THEN 0 ELSE 1]

\* luaL_optstring(L, 1, "%c")
OptFormat(args) ==
  IF Len(args) >= 1 /\ args[1].k = "str" THEN Patterns[args[1].v]
  ELSE DefaultFormat

\* luaL_opt(L, (time_t)luaL_checknumber, 2, time(NULL))
OptInstant(args, now) ==
  IF Len(args) >= 2 /\ args[2].k = "num" THEN args[2].v ELSE now

\* the slot L->top-1 when return 1 is reached with nothing pushed
TopSlot(args) ==
  IF Len(args) > 0 THEN {args[Len(args)]}
  ELSE {V("func", 0), V("frame", 0)}

NoLast == [valid |-> FALSE, stack |-> <<>>, outLen |-> 0, entry |-> 0,
           left |-> 0, attempts |-> 0, result |-> NoneV]
NoLastTime == [valid |-> FALSE, rec |-> EmptyTable, result |-> NoneV]

OsDateCall(args, now, ol) ==
  LET fmt == OptFormat(args)
      p   == Strip(fmt)
      tm  == IF IsUtc(fmt) THEN gmtime_r(OptInstant(args, now))
             ELSE localtime_r(OptInstant(args, now))
      br  == Branch(tm, p)
  IN /\ pc = "idle"
     /\ ol \in (IF br = "format" THEN RenderLens(p) ELSE {0})
     /\ op' = "date"
     /\ stack' = args
     /\ s' = p
     /\ stm' = tm
     /\ outLen' = ol
     /\ entry' = sbufsz(tmpbuf)
     /\ renders' = <<>>
     /\ err' = ""
     /\ IF br = "format"
        THEN /\ sz' = EstimateSize(p)
             /\ retry' = RetryInit
             /\ pc' = "loop"
             /\ result' = NoneV
             /\ tbl' = EmptyTable
        ELSE /\ pc' = "done"
             /\ result' = (CASE br = "nil" -> NilV
                             [] br = "table" -> TableV
                             [] OTHER -> Text(0))
             /\ tbl' = (IF br = "table" THEN DateTable(tm) ELSE EmptyTable)
             /\ UNCHANGED <<sz, retry>>
     /\ UNCHANGED <<tmpbuf, tz, rec, ts, mktimeCalls, last, lastTime>>

\* one iteration of while (retry--)
OsDateAttempt ==
  /\ pc = "loop"
  /\ retry > 0
  /\ LET sb  == lj_buf_need(tmpbuf, sz)
         cap == StrftimeCap(sb, sz)
         len == strftime(cap, outLen)
     IN /\ tmpbuf' = sb
        /\ retry' = retry - 1
        /\ renders' = Append(renders, [req |-> sz, cap |-> cap,
                                       alloc |-> sb.blk, len |-> len])
        /\ IF len > 0
           THEN /\ result' = Text(len)
                /\ pc' = "done"
                /\ sz' = sz
           ELSE /\ sz' = NextSz(sz)
                /\ UNCHANGED <<result, pc>>
  /\ UNCHANGED <<tz, op, stack, s, stm, outLen, entry, tbl, err, rec, ts,
                 mktimeCalls, last, lastTime>>

\* the loop ends with retry == 0: return 1 without a push (the unsigned
\* retry wraps on the last test and is dead afterwards; it is left at 0 here)
OsDateExhausted ==
  /\ pc = "loop"
  /\ retry = 0
  /\ \E r \in TopSlot(stack) : result' = r
  /\ pc' = "done"
  /\ UNCHANGED <<tmpbuf, tz, op, stack, s, stm, outLen, sz, retry, renders,
                 entry, tbl, err, rec, ts, mktimeCalls, last, lastTime>>

----------------------------------------------------------------------------
(* os_time *)

TimeKeys == {"sec", "min", "hour", "day", "month", "year", "isdst"}

\* lua_isnumber: a number or a string convertible to a number
lua_isnumber(x) == x.k = "num" \/ x.k = "numstr"

\* getfield(L, key, d): [fail |-> lj_err_callerv was raised, res |-> value]
getfield_Lenient(r, key, d) ==
  IF lua_isnumber(r[key]) THEN [fail |-> FALSE, res |-> r[key].v]
  ELSE [fail |-> FALSE, res |-> d]
getfield(r, key, d) ==
  IF lua_isnumber(r[key]) THEN [fail |-> FALSE, res |-> r[key].v]
  ELSE IF d < 0 THEN [fail |-> TRUE, res |-> d]
  ELSE [fail |-> FALSE, res |-> d]

\* getboolfield(L, key)
getboolfield(r, key) ==
  IF r[key].k = "nil" THEN -1
  ELSE IF r[key].k = "bool" /\ r[key].v = 0 THEN 0
  ELSE 1

\* the getfield calls of os_time, in program order, with their defaults
FieldOrder ==
  << <<"sec", 0>>, <<"min", 0>>, <<"hour", 12>>,
     <<"day", -1>>, <<"month", -1>>, <<"year", -1>> >>

Field(r, i) == getfield(r, FieldOrder[i][1], FieldOrder[i][2])

Failing(r) == {i \in 1..Len(FieldOrder) : Field(r, i).fail}

FirstFailing(r) ==
  CHOOSE i \in Failing(r) : \A j \in Failing(r) : i <= j

\* the struct tm os_time fills in
TimeStruct(r) ==
  [null |-> FALSE,
   tm_sec |-> Field(r, 1).res,
   tm_min |-> Field(r, 2).res,
   tm_hour |-> Field(r, 3).res,
   tm_mday |-> Field(r, 4).res,
   tm_mon |-> Field(r, 5).res - 1,
   tm_year |-> Field(r, 6).res - 1900,
   tm_wday |-> 0,
   tm_yday |-> 0,
   tm_isdst |-> getboolfield(r, "isdst")]

\* if (t == (time_t)(-1)) lua_pushnil(L); else lua_pushnumber(L, t)
PushTime(t) == IF t = -1 THEN NilV ELSE Num(t)

\* os.time(): lua_isnoneornil(L, 1), t = time(NULL)
OsTimeNow(args, now) ==
  /\ pc = "idle"
  /\ op' = "time"
  /\ stack' = args
  /\ rec' = EmptyTable
  /\ ts' = NullTm
  /\ mktimeCalls' = 0
  /\ err' = ""
  /\ result' = PushTime(now)
  /\ pc' = "done"
  /\ entry' = sbufsz(tmpbuf)
  /\ UNCHANGED <<tmpbuf, tz, s, stm, outLen, sz, retry, renders, tbl, last,
                 lastTime>>

\* os.time(r) with a table r
OsTimeCall(r) ==
  /\ pc = "idle"
  /\ op' = "time"
  /\ stack' = <<TableV>>
  /\ rec' = r
  /\ pc' = "done"
  /\ entry' = sbufsz(tmpbuf)
  /\ IF Failing(r) # {}
     THEN /\ err' = FieldOrder[FirstFailing(r)][1]
          /\ ts' = NullTm
          /\ mktimeCalls' = 0
          /\ result' = NoneV
     ELSE /\ err' = ""
          /\ ts' = TimeStruct(r)
          /\ mktimeCalls' = 1
          /\ result' = PushTime(mktime(TimeStruct(r)))
  /\ UNCHANGED <<tmpbuf, tz, s, stm, outLen, sz, retry, renders, tbl, last,
                 lastTime>>

----------------------------------------------------------------------------
(* The call returns to the script *)

Cleared ==
  /\ pc' = "idle"
  /\ op' = "none"
  /\ stack' = <<>>
  /\ s' = <<>>
  /\ stm' = NullTm
  /\ outLen' = 0
  /\ renders' = <<>>
  /\ entry' = 0
  /\ result' = NoneV
  /\ tbl' = EmptyTable
  /\ err' = ""
  /\ rec' = EmptyTable
  /\ ts' = NullTm
  /\ mktimeCalls' = 0
  /\ UNCHANGED <<tmpbuf, tz, sz, retry>>

Return ==
  /\ pc = "done"
  /\ Cleared
  /\ UNCHANGED <<last, lastTime>>

\* as Return, keeping what the os_date call was given and what it did
ReturnDate ==
  /\ pc = "done"
  /\ op = "date"
  /\ Cleared
  /\ last' = [valid |-> TRUE, stack |-> stack, outLen |-> outLen,
              entry |-> entry, left |-> sbufsz(tmpbuf),
              attempts |-> Len(renders), result |-> result]
  /\ UNCHANGED lastTime

\* as Return, keeping the table os_time was given and what it returned
ReturnTime ==
  /\ pc = "done"
  /\ op = "time"
  /\ err = ""
  /\ rec # EmptyTable
  /\ Cleared
  /\ lastTime' = [valid |-> TRUE, rec |-> rec, result |-> result]
  /\ UNCHANGED last

\* an os_time call that raised, or the os_date call of a round trip, returns
ReturnOther ==
  /\ pc = "done"
  /\ ~(op = "time" /\ err = "" /\ rec # EmptyTable)
  /\ Cleared
  /\ lastTime' = NoLastTime
  /\ UNCHANGED last

----------------------------------------------------------------------------
(* Inputs *)

Instants == {-1, 0, 951827696, 2147000000}
NowInstants == {1000000000}
InitBufSizes == {0, 8 * LJ_MIN_SBUF}
Zones == {0, 3600}

DateStacks ==
  {<<>>}
    \cup {<<Str(i)>> : i \in 1..Len(Patterns)}
    \cup {<<Str(i), Num(t)>> : i \in 1..Len(Patterns), t \in Instants}
    \cup {<<NilV, Num(t)>> : t \in Instants}
    \cup {<<Str(i), NilV>> : i \in {1, 6}}

CarryStacks == {<<Str(6)>>, <<Str(8), Num(0)>>, <<Str(7), Num(0)>>}

Absent == {NilV}
FieldChoices(key) ==
  CASE key = "sec" -> Absent \cup {Num(59)}
    [] key = "min" -> Absent \cup {Num(59), V("bool", 1)}
    [] key = "hour" -> Absent \cup {Num(0), Num(23)}
    [] key = "day" -> Absent \cup {Num(1), Num(32), V("bool", 1)}
    [] key = "month" -> Absent \cup {Num(1), V("numstr", 12)}
    [] key = "year" -> Absent \cup {Num(1969), Num(1970), Num(2024), Num(2040)}
    [] OTHER -> Absent \cup {V("bool", 0), V("bool", 1)}

MkRecord(a, b, c, d, e, f, g) ==
  [key \in TimeKeys |->
     CASE key = "sec" -> a
       [] key = "min" -> b
       [] key = "hour" -> c
       [] key = "day" -> d
       [] key = "month" -> e
       [] key = "year" -> f
       [] OTHER -> g]

----------------------------------------------------------------------------
(* Specifications *)

Init ==
  /\ tmpbuf \in {[blk |-> n, size |-> n] : n \in InitBufSizes}
  /\ tz \in Zones
  /\ pc = "idle"
  /\ op = "none"
  /\ stack = <<>>
  /\ s = <<>>
  /\ stm = NullTm
  /\ outLen = 0
  /\ sz = 0
  /\ retry = 0
  /\ renders = <<>>
  /\ entry = 0
  /\ result = NoneV
  /\ tbl = EmptyTable
  /\ err = ""
  /\ rec = EmptyTable
  /\ ts = NullTm
  /\ mktimeCalls = 0
  /\ last = NoLast
  /\ lastTime = NoLastTime

DateCall ==
  \E args \in DateStacks, now \in NowInstants, ol \in 0..BigOut :
    OsDateCall(args, now, ol)

\* os.date and nothing else
Next ==
  \/ DateCall
  \/ OsDateAttempt
  \/ OsDateExhausted
  \/ Return

Spec == Init /\ [][Next]_vars

CarryCall ==
  \E args \in CarryStacks, now \in NowInstants, ol \in 0..BigOut :
    OsDateCall(args, now, ol)

\* a sequence of os.date calls, each remembered until the next one returns
NextCarry ==
  \/ CarryCall
  \/ OsDateAttempt
  \/ OsDateExhausted
  \/ ReturnDate

SpecCarry == Init /\ [][NextCarry]_vars

TimeCall ==
  /\ ~lastTime.valid
  /\ \E a \in FieldChoices("sec"), b \in FieldChoices("min"),
        c \in FieldChoices("hour"), d \in FieldChoices("day"),
        e \in FieldChoices("month"), f \in FieldChoices("year"),
        g \in FieldChoices("isdst") :
       OsTimeCall(MkRecord(a, b, c, d, e, f, g))

TimeNowCall ==
  /\ ~lastTime.valid
  /\ \E args \in {<<>>, <<NilV>>}, now \in NowInstants : OsTimeNow(args, now)

\* os.date("*t", v) on the value v the previous os.time call returned
RoundTripCall ==
  /\ lastTime.valid
  /\ \E now \in NowInstants : OsDateCall(<<Str(3), lastTime.result>>, now, 0)

\* os.time, and os.date("*t", ...) applied to its result
NextTime ==
  \/ TimeCall
  \/ TimeNowCall
  \/ RoundTripCall
  \/ ReturnTime
  \/ ReturnOther

SpecTime == Init /\ [][NextTime]_vars

----------------------------------------------------------------------------
(* Properties *)

DateDone == pc = "done" /\ op = "date"

\* os_date took the strftime branch
FormatCall == DateDone /\ ~stm.null /\ s # <<>> /\ s # StarT

AllZero == \A i \in 1..Len(renders) : renders[i].len = 0

\* C1: when all 4 render attempts of a call on a valid instant and a
\* non-empty pattern other than "*t" report length zero, the call returns
\* the empty string.
C1_EmptyTextAfterFourZeroRenders ==
  (FormatCall /\ stack # <<>> /\ stack[1].k = "str"
     /\ Len(renders) = 4 /\ AllZero) => result = Text(0)

\* C2: strftime is invoked at most 4 times in a call, no invocation follows
\* one that reported a nonzero length, and the capacity given to every
\* invocation is at most the allocated size of the buffer it writes into.
C2_RenderCallsBounded ==
  /\ Len(renders) <= 4
  /\ \A i \in 1..Len(renders) :
       /\ renders[i].cap <= renders[i].alloc
       /\ i < Len(renders) => renders[i].len = 0

C2_Witness == DateDone /\ Len(renders) = 4 /\ renders[4].len > 0

EmptyPatternCall == DateDone /\ OptFormat(stack) \in {<<>>, <<"!">>}

\* C3 as stated: for every instant, valid or not, the patterns "" and "!"
\* return the empty string with no strftime call.
C3_EmptyPatternAnyInstant ==
  EmptyPatternCall => (result = Text(0) /\ renders = <<>>)

\* C3 (amended): for every instant the OS can decompose, the patterns ""
\* and "!" return the empty string with no strftime call.
C3_EmptyPatternValidInstant ==
  (EmptyPatternCall /\ ~stm.null) => (result = Text(0) /\ renders = <<>>)

C3_Witness ==
  /\ EmptyPatternCall
  /\ ~stm.null
  /\ OptFormat(stack) = <<"!">>
  /\ result = Text(0)

TimeDone == pc = "done" /\ op = "time" /\ rec # EmptyTable

Required == <<"day", "month", "year">>

NotNumeric(x) == x.k \notin {"num", "numstr"}

\* C4 as stated: os_time on a table raises the missing-field error if and
\* only if day, month or year is absent.
C4_AbortsIffAbsent ==
  TimeDone => ((err # "") <=> (\E i \in 1..3 : rec[Required[i]].k = "nil"))

\* C4 (amended): os_time on a table raises the missing-field error if and
\* only if day, month or year is absent or not a number (nor a string
\* convertible to one); the error names the first such field in the order
\* day, month, year and is raised before mktime is called; sec, min and hour
\* that are absent or not numbers become 0, 0 and 12, an absent isdst -1.
C4_AbortsIffNotNumeric ==
  TimeDone =>
    LET bad == {i \in 1..3 : NotNumeric(rec[Required[i]])}
    IN /\ (err # "") <=> (bad # {})
       /\ err # "" =>
            /\ \E i \in bad : err = Required[i] /\ \A j \in bad : i <= j
            /\ mktimeCalls = 0
            /\ result = NoneV
       /\ err = "" =>
            /\ mktimeCalls = 1
            /\ NotNumeric(rec["sec"]) => ts.tm_sec = 0
            /\ NotNumeric(rec["min"]) => ts.tm_min = 0
            /\ NotNumeric(rec["hour"]) => ts.tm_hour = 12
            /\ rec["isdst"].k = "nil" => ts.tm_isdst = -1

C4_Witness ==
  /\ TimeDone
  /\ err = "month"
  /\ rec["day"].k = "num"
  /\ rec["year"].k = "nil"
  /\ rec["hour"].k = "nil"

\* a call on a valid instant with a non-empty pattern, not "*t", without '%'
PlainCall == FormatCall /\ \A i \in 1..Len(s) : s[i] # "%"

\* C5 as stated: a pattern of ordinary characters only takes exactly one
\* render attempt.
C5_PlainPatternOneAttempt == PlainCall => Len(renders) = 1

\* C5 (amended): a pattern of ordinary characters only takes one or two
\* render attempts and yields a text as long as the pattern; it takes two
\* exactly when the capacity of the first attempt equals the pattern length,
\* which leaves no room for the terminator.
C5_PlainPatternAtMostTwo ==
  PlainCall =>
    /\ Len(renders) \in {1, 2}
    /\ result = Text(Len(s))
    /\ (Len(renders) = 2) <=> (renders[1].cap = Len(s))

C5_Witness == PlainCall /\ Len(renders) = 2 /\ result = Text(Len(s))

\* the current call was given what the previous call was given
SameCall ==
  DateDone /\ last.valid /\ last.stack = stack /\ last.outLen = outLen

C7_InvalidInstantNil ==
  (op = "date" /\ stm.null) =>
    /\ pc = "done"
    /\ result = NilV
    /\ tbl = EmptyTable
    /\ renders = <<>>

C7_Witness == DateDone /\ stm.null /\ s = StarT /\ result = NilV

\* C8: os_time on a table returns nil if and only if the fields denote no
\* representable instant; otherwise it returns that instant as a number.
C8_NilIffUnrepresentable ==
  (TimeDone /\ err = "") =>
    IF Representable(ts) THEN result = Num(TmInstant(ts)) ELSE result = NilV

Six == {"sec", "min", "hour", "day", "month", "year"}

InRange(r) ==
  /\ \A key \in Six : r[key].k = "num"
  /\ r["day"].v \in 1..28
  /\ r["month"].v \in 1..12
  /\ r["year"].v >= 1970
  /\ r["hour"].v \in 0..23
  /\ r["min"].v \in 0..59
  /\ r["sec"].v \in 0..59

\* C9: for a table with in-range fields that mktime can represent,
\* os.date("*t", os.time(table)) has the same sec, min, hour, day, month and
\* year.
C9_RoundTrip ==
  (DateDone /\ lastTime.valid /\ InRange(lastTime.rec)
     /\ Representable(TimeStruct(lastTime.rec))) =>
    /\ result = TableV
    /\ \A key \in Six : tbl[key] = lastTime.rec[key].v

GrowthF(n) == IF n % 2 = 0 THEN 2 * n + 1 ELSE 2 * n

PatternUnits(p) ==
  Cardinality({i \in 1..Len(p) : p[i] # "%"})
    + 30 * Cardinality({i \in 1..Len(p) : p[i] = "%"})

\* C10: the capacities a call requests are e, f(e), f(f(e)), f(f(f(e))) with
\* e = ordinary characters + 30 * '%' characters of the stripped pattern and
\* f(n) = n + (n | 1); e >= 1 and every request is greater than, and at
\* least twice, the one before.
C10_RequestedCapacities ==
  (op = "date" /\ (pc = "loop" \/ renders # <<>>)) =>
    LET e == PatternUnits(s)
        n == Len(renders)
    IN /\ e >= 1
       /\ n >= 1 => renders[1].req = e
       /\ \A i \in 2..n :
            /\ renders[i].req = GrowthF(renders[i - 1].req)
            /\ renders[i].req > renders[i - 1].req
            /\ renders[i].req >= 2 * renders[i - 1].req
       /\ pc = "loop" => sz = (IF n = 0 THEN e ELSE GrowthF(renders[n].req))

C10_Witness ==
  DateDone /\ Len(renders) = 4 /\ AllZero /\ Len(s) = 2 /\ renders[4].req = 250

====
